---- MODULE Spec2Model ----
(***************************************************************************)
(* Model of benchmark_db.py: the deterministic dataset generator, the      *)
(* Benchmark timer and the four backend routines driven by the main block. *)
(* Driver calls (sqlite3, mysql.connector, pymongo, tinydb) are modelled   *)
(* by their effect on the persisted namespace of each backend; every       *)
(* driver call may also raise.                                             *)
(***************************************************************************)
EXTENDS Integers, Sequences, FiniteSets

\* ---------------------------------------------------------------- bounds
\* range(1, 5001) scaled down
UserCount == 3
\* range(1, 20001) scaled down
OrderCount == 4
\* largest number of clock ticks one step may take
MaxDur == 2
\* number of times the script is started against the same persisted files
MaxRuns == 2
\* GenSpec: number of get_dataset invocations / interleaved random draws
MaxCalls == 3
MaxDraws == 3

\* ------------------------------------------------------------- constants
SEED == 42

Backends == {"MySQL", "SQLite", "MongoDB", "TinyDB"}

statuses == <<"PENDING", "PAID", "CANCELLED">>

\* generator states the interpreter may start with (random is seeded from
\* the OS when the process starts)
RngSeeds == {0, 7, 42, 4711}

\* ----------------------------------------------------------- random module
\* One step of the pseudo-random stream.  Python uses the Mersenne Twister;
\* a 16-bit linear congruential generator stands in for it.
LcgNext(s) == (25173 * s + 13849) % 65536

\* random.seed(n): the stream state becomes a function of n alone
seed(n) == n % 65536

\* random.randint(lo, hi) drawn in stream state s
randint_from_zero(s, lo, hi) ==
    [val |-> (lo - 1) + ((LcgNext(s) \div 64) % (hi - lo + 1)),
     state |-> LcgNext(s)]

randint(s, lo, hi) ==
    [val |-> lo + ((LcgNext(s) \div 64) % (hi - lo + 1)), state |-> LcgNext(s)]

\* round(random.uniform(1, 500), 2), held in hundredths (100 .. 50000)
uniform_cents(s) ==
    [val |-> 100 + (LcgNext(s) % 49901), state |-> LcgNext(s)]

\* random.choice(seq)
choice(s, seq) ==
    [val |-> seq[1 + ((LcgNext(s) \div 256) % Len(seq))], state |-> LcgNext(s)]

\* ------------------------------------------------------------ get_dataset
\* A Python dict of the dataset; oid is TRUE when the dict holds an "_id" key
MakeUser(i) ==
    [user_id |-> i, name |-> <<"User ", i>>,
     email |-> <<"user", i, "@example.com">>,
     created_at |-> "2023-01-01 10:00:00", oid |-> FALSE]

\* the order appended in iteration i of the second loop, stream state s
MakeOrder(i, s) ==
    LET u == randint(s, 1, UserCount)
        a == uniform_cents(u.state)
        c == choice(a.state, statuses)
    IN [order |-> [order_id |-> i, user_id |-> u.val, amount |-> a.val,
                   status |-> c.val, created_at |-> "2023-01-02 11:00:00",
                   oid |-> FALSE],
        state |-> c.state]

RECURSIVE GenOrders(_, _, _)
GenOrders(i, s, acc) ==
    IF i > OrderCount THEN [orders |-> acc, state |-> s]
    ELSE LET o == MakeOrder(i, s)
         IN GenOrders(i + 1, o.state, Append(acc, o.order))

\* get_dataset() called while the stream is in state s; the state argument
\* is overwritten by random.seed(42)
get_dataset_noseed(s) ==
    LET g == GenOrders(1, s, <<>>)
    IN [users |-> [i \in 1..UserCount |-> MakeUser(i)],
        orders |-> g.orders, state |-> g.state]

get_dataset(s) ==
    LET g == GenOrders(1, seed(SEED), <<>>)
    IN [users |-> [i \in 1..UserCount |-> MakeUser(i)],
        orders |-> g.orders, state |-> g.state]

\* ------------------------------------------------------------- Benchmark
\* self.results[operation_name] = value on an insertion-ordered dict, held
\* as a sequence of <<key, value>> pairs
RECURSIVE DictSet(_, _, _)
DictSet(d, k, v) ==
    IF d = <<>> THEN << <<k, v>> >>
    ELSE IF Head(d)[1] = k THEN << <<k, v>> >> \o Tail(d)
    ELSE << Head(d) >> \o DictSet(Tail(d), k, v)

Keys(d) == [i \in 1..Len(d) |-> d[i][1]]

\* duration_ms = (end - start) * 1000
duration_ms_from_zero(start, end) == end * 1000

duration_ms(start, end) == (end - start) * 1000

\* Benchmark.measure: the entry written for operation_name
measure(res, operation_name, start, end) ==
    DictSet(res, operation_name, duration_ms(start, end))

\* the bench.measure calls of a backend routine, in program order
ScriptDoubleCreate(b) ==
    IF b = "MongoDB"
    THEN <<"Create", "Create", "Read-1 Point", "Read-2 Range",
           "Read-3 UserOrders", "Update", "Delete">>
    ELSE <<"Create", "Read-1 Point", "Read-2 Range", "Read-3 UserOrders",
           "Update", "Delete">>

Script(b) ==
    <<"Create", "Read-1 Point", "Read-2 Range", "Read-3 UserOrders",
      "Update", "Delete">>

\* ------------------------------------------------------ persisted storage
\* The namespace of one backend: the rows / documents of users and orders.
EmptyStore == [users |-> <<>>, orders |-> <<>>]

\* What an earlier, unrelated run may have left behind
StaleStore ==
    [users |-> << [user_id |-> 1, name |-> <<"Old ", 1>>,
                   email |-> <<"old", 1, "@example.com">>,
                   created_at |-> "2022-01-01 00:00:00", oid |-> FALSE] >>,
     orders |-> << [order_id |-> 98, user_id |-> 1, amount |-> 100,
                    status |-> "CANCELLED",
                    created_at |-> "2022-01-01 00:00:00", oid |-> FALSE],
                   [order_id |-> 99, user_id |-> 1, amount |-> 200,
                    status |-> "PENDING",
                    created_at |-> "2022-01-01 00:00:00", oid |-> FALSE] >>]

\* the generated fields of a stored row (a MongoDB document also has _id)
Data(row) == [row EXCEPT !.oid = FALSE]
DataSeq(rows) == [i \in 1..Len(rows) |-> Data(rows[i])]

\* os.path.exists / os.remove of the database file
RemoveFileKeep(st) == st

RemoveFile(st) == EmptyStore

\* DROP TABLE IF EXISTS orders / users, then CREATE TABLE
DropTables(st) == EmptyStore

\* db.users.drop(); db.orders.drop()
DropCollections(st) == EmptyStore

\* UPDATE orders SET status = new WHERE status = old
SetStatus(orders, old, new) ==
    [i \in 1..Len(orders) |->
        IF orders[i].status = old THEN [orders[i] EXCEPT !.status = new]
        ELSE orders[i]]

\* DELETE FROM orders WHERE status = st
RemoveStatus(orders, st) ==
    LET Keep(o) == o.status # st IN SelectSeq(orders, Keep)

\* --- SQLite
sqlite_insert_data(st, users, orders) ==
    [users |-> st.users \o DataSeq(users), orders |-> st.orders \o DataSeq(orders)]
sqlite_update_op(st) == [st EXCEPT !.orders = SetStatus(@, "PENDING", "PAID")]
sqlite_delete_op(st) == [st EXCEPT !.orders = RemoveStatus(@, "CANCELLED")]

\* --- MySQL
mysql_insert_data(st, users, orders) ==
    [users |-> st.users \o DataSeq(users), orders |-> st.orders \o DataSeq(orders)]
mysql_update_op(st) == [st EXCEPT !.orders = SetStatus(@, "PENDING", "PAID")]
mysql_delete_op(st) == [st EXCEPT !.orders = RemoveStatus(@, "CANCELLED")]

\* --- MongoDB
\* insert_one(doc) adds the generated _id to the dict it is handed
WithId(doc) == [doc EXCEPT !.oid = TRUE]

\* db.users.insert_one(u.copy()): the document stored, and the caller's
\* dict u after the call
mongo_insert_one_nocopy(u) == [stored |-> WithId(u), caller |-> WithId(u)]

mongo_insert_one(u) == [stored |-> WithId(u), caller |-> u]

mongodb_insert_data(st, users, orders) ==
    [users |-> st.users \o [i \in 1..Len(users) |-> mongo_insert_one(users[i]).stored],
     orders |-> st.orders \o [i \in 1..Len(orders) |-> mongo_insert_one(orders[i]).stored]]
mongodb_update_op(st) == [st EXCEPT !.orders = SetStatus(@, "PENDING", "PAID")]
mongodb_delete_op(st) == [st EXCEPT !.orders = RemoveStatus(@, "CANCELLED")]

\* --- TinyDB
\* users_table.insert(u) stores dict(u)
tinydb_insert_data(st, users, orders) ==
    [users |-> st.users \o users, orders |-> st.orders \o orders]
tinydb_update_op_swapped(st) ==
    [st EXCEPT !.orders = SetStatus(@, "PAID", "PENDING")]
tinydb_update_op(st) == [st EXCEPT !.orders = SetStatus(@, "PENDING", "PAID")]
tinydb_delete_op(st) == [st EXCEPT !.orders = RemoveStatus(@, "CANCELLED")]

\* the lists users / orders of the caller after insert_data of backend b
CallerAfterInsert(b, seq) ==
    IF b = "MongoDB" THEN [i \in 1..Len(seq) |-> mongo_insert_one(seq[i]).caller]
    ELSE seq

\* effect of the measured function op of backend b on its namespace
RunOp(b, op, st, users, orders) ==
    CASE op = "Create" ->
           (CASE b = "SQLite"  -> sqlite_insert_data(st, users, orders)
              [] b = "MySQL"   -> mysql_insert_data(st, users, orders)
              [] b = "MongoDB" -> mongodb_insert_data(st, users, orders)
              [] b = "TinyDB"  -> tinydb_insert_data(st, users, orders))
      [] op = "Update" ->
           (CASE b = "SQLite"  -> sqlite_update_op(st)
              [] b = "MySQL"   -> mysql_update_op(st)
              [] b = "MongoDB" -> mongodb_update_op(st)
              [] b = "TinyDB"  -> tinydb_update_op(st))
      [] op = "Delete" ->
           (CASE b = "SQLite"  -> sqlite_delete_op(st)
              [] b = "MySQL"   -> mysql_delete_op(st)
              [] b = "MongoDB" -> mongodb_delete_op(st)
              [] b = "TinyDB"  -> tinydb_delete_op(st))
      [] OTHER -> st

\* the first k documents of users followed by orders (an insert loop that
\* raised after k inserts)
FirstInserts(users, orders, k) ==
    [users |-> SubSeq(users, 1, IF k < Len(users) THEN k ELSE Len(users)),
     orders |-> SubSeq(orders, 1, IF k > Len(users) THEN k - Len(users) ELSE 0)]

\* namespace of backend b after op raised: SQL backends lose what was not
\* committed; MongoDB and TinyDB keep the k documents already written
RaisedOp(b, op, st, users, orders, k) ==
    IF op = "Create" /\ b \in {"MongoDB", "TinyDB"}
    THEN LET f == FirstInserts(users, orders, k)
         IN RunOp(b, op, st, f.users, f.orders)
    ELSE st

\* the order of the calls in the main block
NextBackend(b) ==
    CASE b = "MySQL"   -> "SQLite"
      [] b = "SQLite"  -> "MongoDB"
      [] b = "MongoDB" -> "TinyDB"
      [] b = "TinyDB"  -> "done"

\* ------------------------------------------------------------------ state
VARIABLES
    pc,          \* position of the main block: "start", a backend, "done", "aborted"
    phase,       \* position inside the running routine: "open", "setup", "ops", "-"
    idx,         \* index in Script of the next bench.measure call
    users_data,  \* the list users_data of the main block
    orders_data, \* the list orders_data of the main block
    datasets,    \* every (users, orders) pair get_dataset has returned so far
    rng,         \* state of the random stream
    draws,       \* random draws made outside get_dataset
    store,       \* persisted namespace of each backend
    handle,      \* connection / client / file of each backend
    results,     \* bench.results of the Benchmark constructed last
    timed,       \* per backend, the operations bench.measure has timed
    ret,         \* the value just returned to the main block (discarded by the next call)
    outcome,     \* per backend: "idle", "running", "returned", "raised"
    failed_at,   \* per backend: "none", "connect", "setup", "op"
    clock,       \* time.perf_counter()
    window,      \* the timed window measured last
    prevEnd,     \* latest end of all windows before window
    runs,        \* how many times the script has been started
    left,        \* per backend, the namespace its first completed run left
    ready        \* per backend: its setup has completed in this process

vars == <<pc, phase, idx, users_data, orders_data, datasets, rng, draws, store,
          handle, results, timed, ret, outcome, failed_at, clock, window,
          prevEnd, runs, left, ready>>

NoWindow == [db |-> "-", op |-> "-", start |-> 0, end |-> 0]
NoReturn == [by |-> "-", value |-> <<>>]

\* the state of a freshly started interpreter
Fresh ==
    /\ pc = "start" /\ phase = "-" /\ idx = 0
    /\ users_data = <<>> /\ orders_data = <<>>
    /\ rng \in RngSeeds
    /\ handle = [b \in Backends |-> "none"]
    /\ results = <<>>
    /\ timed = [b \in Backends |-> <<>>]
    /\ ret = NoReturn
    /\ outcome = [b \in Backends |-> "idle"]
    /\ failed_at = [b \in Backends |-> "none"]
    /\ clock = 0 /\ window = NoWindow /\ prevEnd = 0
    /\ ready = [b \in Backends |-> FALSE]

Init ==
    /\ Fresh
    /\ datasets = <<>> /\ draws = 0 /\ runs = 1
    /\ store \in [Backends -> {EmptyStore, StaleStore}]
    /\ left = [b \in Backends |-> <<>>]

\* ------------------------------------------------------------ main block
\* users_data, orders_data = get_dataset(); then run_mysql is called
Generate ==
    /\ pc = "start"
    /\ LET g == get_dataset(rng) IN
        /\ users_data' = g.users
        /\ orders_data' = g.orders
        /\ rng' = g.state
        /\ datasets' = Append(datasets, [users |-> g.users, orders |-> g.orders])
    /\ pc' = "MySQL" /\ phase' = "open"
    /\ outcome' = [outcome EXCEPT !["MySQL"] = "running"]
    /\ clock' = clock + 1
    /\ UNCHANGED <<idx, draws, store, handle, results, timed, ret, failed_at,
                   window, prevEnd, runs, left,
                   ready>>

\* control returns from routine b to the main block, which calls the next
Returned(b, value) ==
    /\ ret' = [by |-> b, value |-> value]
    /\ pc' = NextBackend(b)
    /\ phase' = IF NextBackend(b) = "done" THEN "-" ELSE "open"
    /\ idx' = 0
    /\ outcome' = IF NextBackend(b) = "done"
                  THEN [outcome EXCEPT ![b] = "returned"]
                  ELSE [outcome EXCEPT ![b] = "returned",
                                       ![NextBackend(b)] = "running"]

\* an exception leaves routine b; the main block has no handler
Raised(b, where) ==
    /\ pc' = "aborted" /\ phase' = "-" /\ idx' = 0
    /\ outcome' = [outcome EXCEPT ![b] = "raised"]
    /\ failed_at' = [failed_at EXCEPT ![b] = where]

\* ---------------------------------------------------- connection / setup
\* run_mysql: connect succeeded, cursor and Benchmark("MySQL") created
MySQLConnect ==
    /\ pc = "MySQL" /\ phase = "open"
    /\ handle' = [handle EXCEPT !["MySQL"] = "open"]
    /\ results' = <<>>
    /\ ret' = NoReturn
    /\ phase' = "setup"
    /\ UNCHANGED <<pc, idx, users_data, orders_data, datasets, rng, draws,
                   store, timed, outcome, failed_at, clock, window,
                   prevEnd, runs, left, ready>>

\* run_mysql: connect raised; "Skipping MySQL" and return {}
MySQLSkip ==
    /\ pc = "MySQL" /\ phase = "open"
    /\ Returned("MySQL", <<>>)
    /\ failed_at' = [failed_at EXCEPT !["MySQL"] = "connect"]
    /\ UNCHANGED <<users_data, orders_data, datasets, rng, draws, store,
                   handle, results, timed, clock, window, prevEnd, runs, left,
                   ready>>

\* run_mysql: DROP TABLE / CREATE TABLE / commit
MySQLSetup ==
    /\ pc = "MySQL" /\ phase = "setup"
    /\ store' = [store EXCEPT !["MySQL"] = DropTables(@)]
    /\ phase' = "ops" /\ idx' = 1
    /\ ready' = [ready EXCEPT !["MySQL"] = TRUE]
    /\ UNCHANGED <<pc, users_data, orders_data, datasets, rng, draws, handle,
                   results, timed, ret, outcome, failed_at, clock, window,
                   prevEnd, runs, left>>

\* run_sqlite: the file is removed, sqlite3.connect, cursor, Benchmark("SQLite")
SQLiteOpen ==
    /\ pc = "SQLite" /\ phase = "open"
    /\ store' = [store EXCEPT !["SQLite"] = RemoveFile(@)]
    /\ handle' = [handle EXCEPT !["SQLite"] = "open"]
    /\ results' = <<>>
    /\ ret' = NoReturn
    /\ phase' = "setup"
    /\ UNCHANGED <<pc, idx, users_data, orders_data, datasets, rng, draws,
                   timed, outcome, failed_at, clock, window, prevEnd,
                   runs, left,
                   ready>>

\* run_sqlite: CREATE TABLE users / orders, commit
SQLiteSetup ==
    /\ pc = "SQLite" /\ phase = "setup"
    /\ phase' = "ops" /\ idx' = 1
    /\ ready' = [ready EXCEPT !["SQLite"] = TRUE]
    /\ UNCHANGED <<pc, users_data, orders_data, datasets, rng, draws, store,
                   handle, results, timed, ret, outcome, failed_at, clock,
                   window, prevEnd, runs, left>>

\* run_mongodb: MongoClient(...), client["shopping_db"], Benchmark("MongoDB")
MongoConnect ==
    /\ pc = "MongoDB" /\ phase = "open"
    /\ handle' = [handle EXCEPT !["MongoDB"] = "open"]
    /\ results' = <<>>
    /\ ret' = NoReturn
    /\ phase' = "setup"
    /\ UNCHANGED <<pc, idx, users_data, orders_data, datasets, rng, draws,
                   store, timed, outcome, failed_at, clock, window,
                   prevEnd, runs, left, ready>>

\* run_mongodb: the try block raised; "Skipping MongoDB" and return {}
MongoSkip ==
    /\ pc = "MongoDB" /\ phase = "open"
    /\ Returned("MongoDB", <<>>)
    /\ failed_at' = [failed_at EXCEPT !["MongoDB"] = "connect"]
    /\ UNCHANGED <<users_data, orders_data, datasets, rng, draws, store,
                   handle, results, timed, clock, window, prevEnd, runs, left,
                   ready>>

\* run_mongodb: db.users.drop(); db.orders.drop()
MongoSetup ==
    /\ pc = "MongoDB" /\ phase = "setup"
    /\ store' = [store EXCEPT !["MongoDB"] = DropCollections(@)]
    /\ phase' = "ops" /\ idx' = 1
    /\ ready' = [ready EXCEPT !["MongoDB"] = TRUE]
    /\ UNCHANGED <<pc, users_data, orders_data, datasets, rng, draws, handle,
                   results, timed, ret, outcome, failed_at, clock, window,
                   prevEnd, runs, left>>

\* run_tinydb: the file is removed, TinyDB(db_file), tables, Benchmark("TinyDB")
TinyDBOpen ==
    /\ pc = "TinyDB" /\ phase = "open"
    /\ store' = [store EXCEPT !["TinyDB"] = RemoveFile(@)]
    /\ handle' = [handle EXCEPT !["TinyDB"] = "open"]
    /\ results' = <<>>
    /\ ret' = NoReturn
    /\ phase' = "ops" /\ idx' = 1
    /\ ready' = [ready EXCEPT !["TinyDB"] = TRUE]
    /\ UNCHANGED <<pc, users_data, orders_data, datasets, rng, draws, timed,
                   outcome, failed_at, clock, window, prevEnd, runs, left>>

\* run_sqlite / run_tinydb: os.remove or the open call raises (no handler);
\* the file may already have been removed
OpenRaises(b) ==
    /\ b \in {"SQLite", "TinyDB"}
    /\ pc = b /\ phase = "open"
    /\ \E removed \in BOOLEAN :
         store' = [store EXCEPT ![b] = IF removed THEN RemoveFile(@) ELSE @]
    /\ Raised(b, "connect")
    /\ UNCHANGED <<users_data, orders_data, datasets, rng, draws, handle,
                   results, timed, ret, clock, window, prevEnd, runs, left,
                   ready>>

\* a setup statement (DROP / CREATE TABLE, drop()) raises (no handler)
SetupRaises(b) ==
    /\ b \in {"MySQL", "SQLite", "MongoDB"}
    /\ pc = b /\ phase = "setup"
    /\ Raised(b, "setup")
    /\ UNCHANGED <<users_data, orders_data, datasets, rng, draws, store,
                   handle, results, timed, ret, clock, window, prevEnd, runs,
                   left,
                   ready>>

\* ------------------------------------------------------------ operations
\* bench.measure(op, func): start = perf_counter(); func(); end =
\* perf_counter(); results[op] = duration.  func takes d clock ticks.
Measure(b, d) ==
    /\ pc = b /\ phase = "ops" /\ idx <= Len(Script(b))
    /\ LET op == Script(b)[idx] IN
        LET start == clock
            end == clock + d
        IN /\ store' = [store EXCEPT
                          ![b] = RunOp(b, op, @, users_data, orders_data)]
           /\ users_data' = IF op = "Create"
                            THEN CallerAfterInsert(b, users_data)
                            ELSE users_data
           /\ orders_data' = IF op = "Create"
                             THEN CallerAfterInsert(b, orders_data)
                             ELSE orders_data
           /\ results' = measure(results, op, start, end)
           /\ timed' = [timed EXCEPT ![b] = Append(@, op)]
           /\ window' = [db |-> b, op |-> op, start |-> start, end |-> end]
           /\ prevEnd' = IF window.end > prevEnd THEN window.end ELSE prevEnd
           /\ clock' = end
    /\ idx' = idx + 1
    /\ UNCHANGED <<pc, phase, datasets, rng, draws, handle, ret, outcome,
                   failed_at, runs, left,
                   ready>>

\* the measured function raises: the exception passes through measure (no
\* entry is written) and through the routine
OpRaises(b) ==
    /\ pc = b /\ phase = "ops" /\ idx <= Len(Script(b))
    /\ \E k \in 0..(Len(users_data) + Len(orders_data) - 1) :
         store' = [store EXCEPT
                     ![b] = RaisedOp(b, Script(b)[idx], @, users_data,
                                     orders_data, k)]
    /\ Raised(b, "op")
    /\ UNCHANGED <<users_data, orders_data, datasets, rng, draws, handle,
                   results, timed, ret, clock, window, prevEnd, runs, left,
                   ready>>

\* the routine has made all its measure calls and returns bench.results
Finish(b) ==
    /\ pc = b /\ phase = "ops" /\ idx > Len(Script(b))
    /\ Returned(b, results)
    /\ left' = [left EXCEPT ![b] = IF @ = <<>>
                                  THEN << [st |-> store[b], run |-> runs] >>
                                  ELSE @]

\* run_sqlite: conn.close(); return bench.results
SQLiteReturn ==
    /\ Finish("SQLite")
    /\ handle' = [handle EXCEPT !["SQLite"] = "closed"]
    /\ UNCHANGED <<users_data, orders_data, datasets, rng, draws, store,
                   results, timed, failed_at, clock, window, prevEnd, runs,
                   ready>>

\* run_mysql: conn.close(); return bench.results
MySQLReturn ==
    /\ Finish("MySQL")
    /\ handle' = [handle EXCEPT !["MySQL"] = "closed"]
    /\ UNCHANGED <<users_data, orders_data, datasets, rng, draws, store,
                   results, timed, failed_at, clock, window, prevEnd, runs,
                   ready>>

\* run_mongodb: return bench.results
MongoReturn ==
    /\ Finish("MongoDB")
    /\ UNCHANGED <<users_data, orders_data, datasets, rng, draws, store,
                   handle, results, timed, failed_at, clock, window, prevEnd,
                   runs,
                   ready>>

\* run_tinydb: return bench.results; the main block prints "Done."
TinyDBReturn ==
    /\ Finish("TinyDB")
    /\ UNCHANGED <<users_data, orders_data, datasets, rng, draws, store,
                   handle, results, timed, failed_at, clock, window, prevEnd,
                   runs,
                   ready>>

\* the script is started again; only the persisted namespaces survive
Restart ==
    /\ pc \in {"done", "aborted"}
    /\ runs < MaxRuns
    /\ runs' = runs + 1
    /\ pc' = "start" /\ phase' = "-" /\ idx' = 0
    /\ users_data' = <<>> /\ orders_data' = <<>>
    /\ rng' \in RngSeeds
    /\ handle' = [b \in Backends |-> "none"]
    /\ results' = <<>>
    /\ timed' = [b \in Backends |-> <<>>]
    /\ ret' = NoReturn
    /\ outcome' = [b \in Backends |-> "idle"]
    /\ failed_at' = [b \in Backends |-> "none"]
    /\ clock' = 0 /\ window' = NoWindow /\ prevEnd' = 0
    /\ ready' = [b \in Backends |-> FALSE]
    /\ UNCHANGED <<datasets, draws, store, left>>

Next ==
    \/ Generate
    \/ MySQLConnect \/ MySQLSkip \/ MySQLSetup
    \/ SQLiteOpen \/ SQLiteSetup
    \/ MongoConnect \/ MongoSkip \/ MongoSetup
    \/ TinyDBOpen
    \/ \E b \in Backends : OpenRaises(b)
    \/ \E b \in Backends : SetupRaises(b)
    \/ \E b \in Backends : Measure(b, 1)
    \/ \E b \in Backends : OpRaises(b)
    \/ SQLiteReturn \/ MySQLReturn \/ MongoReturn \/ TinyDBReturn
    \/ Restart

\* every measured function takes one clock tick
Spec == Init /\ [][Next]_vars

\* ------------------------------------------ one start, durations explored
InitTimed ==
    /\ Init
    /\ \E st \in {EmptyStore, StaleStore} : store = [b \in Backends |-> st]

NextTimed ==
    \/ Generate
    \/ MySQLConnect \/ MySQLSkip \/ MySQLSetup
    \/ SQLiteOpen \/ SQLiteSetup
    \/ MongoConnect \/ MongoSkip \/ MongoSetup
    \/ TinyDBOpen
    \/ \E b \in Backends : OpenRaises(b)
    \/ \E b \in Backends : SetupRaises(b)
    \/ \E b \in Backends : \E d \in 1..MaxDur : Measure(b, d)
    \/ \E b \in Backends : OpRaises(b)
    \/ SQLiteReturn \/ MySQLReturn \/ MongoReturn \/ TinyDBReturn

TimedSpec == InitTimed /\ [][NextTimed]_vars

\* ------------------------------------------- the generator called repeatedly
\* some other code draws from the shared random stream
RandomDraw ==
    /\ pc = "start"
    /\ draws < MaxDraws
    /\ rng' = LcgNext(rng)
    /\ draws' = draws + 1
    /\ UNCHANGED <<pc, phase, idx, users_data, orders_data, datasets, store,
                   handle, results, timed, ret, outcome, failed_at, clock,
                   window, prevEnd, runs, left,
                   ready>>

\* get_dataset() is called and its result kept
GetDatasetCall ==
    /\ pc = "start"
    /\ Len(datasets) < MaxCalls
    /\ LET g == get_dataset(rng) IN
        /\ users_data' = g.users
        /\ orders_data' = g.orders
        /\ rng' = g.state
        /\ datasets' = Append(datasets, [users |-> g.users, orders |-> g.orders])
    /\ UNCHANGED <<pc, phase, idx, draws, store, handle, results, timed, ret,
                   outcome, failed_at, clock, window, prevEnd, runs, left,
                   ready>>

GenNext == RandomDraw \/ GetDatasetCall

GenSpec == Init /\ [][GenNext]_vars

\* ================================================================ claims
\* the six operation names of a BenchmarkResult, in the order of the contract
ExpectedOps ==
    <<"Create", "Read-1 Point", "Read-2 Range", "Read-3 UserOrders",
      "Update", "Delete">>

IsPrefix(p, q) == Len(p) <= Len(q) /\ p = SubSeq(q, 1, Len(p))

Range(f) == {f[i] : i \in DOMAIN f}

\* the run of backend b made all its measure calls and returned
Completed(b) == outcome[b] = "returned" /\ failed_at[b] = "none"

\* the dataset the generator returned to this process
Generated == datasets[Len(datasets)]

\* C1 - Fault isolation: a backend that fails (connection, setup or one of
\* its operations) does not abort the process; the backends after it still
\* run.  Stated as: no backend failure leaves the main block aborted.
C1_FaultIsolation ==
    \A b \in Backends : failed_at[b] # "none" => pc # "aborted"

\* C2 - Skip behaviour: in every backend routine a failing connection or
\* setup step makes the routine return an empty mapping, without raising
\* and without timing any operation.
C2_SkipBehaviour ==
    \A b \in Backends :
        failed_at[b] \in {"connect", "setup"} =>
            /\ outcome[b] = "returned"
            /\ timed[b] = <<>>
            /\ (ret.by = b => ret.value = <<>>)

\* C3 - In every backend run that completes, the timed operations are
\* exactly Create, Read-1 Point, Read-2 Range, Read-3 UserOrders, Update,
\* Delete, in that order and once each, setup is finished before Create is
\* timed, and the returned mapping has exactly these keys in that order.
C3_OperationOrder ==
    \A b \in Backends :
        /\ IsPrefix(timed[b], ExpectedOps)
        /\ (timed[b] # <<>> => ready[b])
        /\ (Completed(b) => timed[b] = ExpectedOps)
        /\ (ret.by = b /\ Completed(b) => Keys(ret.value) = ExpectedOps)

C3_Witness ==
    /\ ret.by = "MongoDB" /\ Completed("MongoDB")
    /\ timed["MongoDB"] = ExpectedOps
    /\ Completed("SQLite")

\* C4 - Resource release: once a backend routine has returned or has been
\* left by an exception, the connection, client or file it acquired is no
\* longer open.
C4_ResourceRelease ==
    \A b \in Backends :
        outcome[b] \in {"returned", "raised"} => handle[b] # "open"

\* C5 - Disjoint timing: every timed window starts no earlier than the end
\* of every window measured before it, and the duration recorded under an
\* operation name is the length of that operation's window (in ms).
C5_DisjointTiming ==
    /\ window.start >= prevEnd
    /\ window.end >= window.start
    /\ (window # NoWindow /\ pc = window.db /\ phase = "ops" =>
            \E i \in 1..Len(results) :
                /\ results[i] = <<window.op, (window.end - window.start) * 1000>>
                /\ \A j \in 1..Len(results) : results[j][1] = window.op => j = i)

C5_Witness ==
    /\ pc = "TinyDB" /\ phase = "ops"
    /\ window.db = "TinyDB" /\ window.op = "Delete"
    /\ window.end - window.start = MaxDur
    /\ prevEnd > 0 /\ window.start > prevEnd - MaxDur
    /\ Completed("MySQL") /\ Completed("SQLite") /\ Completed("MongoDB")

\* C6 - Unchanged dataset: once generated, the in-memory users and orders
\* stay equal, record for record and field for field, to what get_dataset
\* returned, whatever backend operations have run.
C6_DatasetUnchanged ==
    pc # "start" =>
        /\ users_data = Generated.users
        /\ orders_data = Generated.orders

C6_Witness ==
    /\ pc = "done"
    /\ \A b \in Backends : Completed(b)
    /\ Len(store["MongoDB"].users) = UserCount
    /\ \A i \in 1..UserCount : store["MongoDB"].users[i].oid

\* C7 - Post-Delete state: after a backend run has completed its Delete
\* step, the backend stores no CANCELLED order and no PENDING order.
C7_PostDelete ==
    \A b \in Backends :
        "Delete" \in Range(timed[b]) =>
            \A i \in 1..Len(store[b].orders) :
                store[b].orders[i].status \notin {"CANCELLED", "PENDING"}

C7_Witness ==
    /\ \A b \in Backends : "Delete" \in Range(timed[b])
    /\ \E i \in 1..Len(orders_data) : orders_data[i].status = "CANCELLED"
    /\ \E i \in 1..Len(orders_data) : orders_data[i].status = "PENDING"
    /\ \A b \in Backends : Len(store[b].orders) > 0
    /\ \A b \in Backends : Len(store[b].orders) < Len(orders_data)

\* C8 - Generator determinism: all invocations of get_dataset return the
\* same users and orders, whatever the random stream did in between.
C8_Determinism ==
    \A i, j \in 1..Len(datasets) : datasets[i] = datasets[j]

C8_Witness ==
    /\ Len(datasets) = MaxCalls
    /\ draws = MaxDraws
    /\ rng # LcgNext(seed(SEED))

\* C9 - Recreated from scratch: right after Create a backend stores exactly
\* the generated users and orders, whatever was in its namespace before,
\* and a later full run leaves the namespace as the first full run left it.
C9_RecreatedFromScratch ==
    \A b \in Backends :
        /\ (timed[b] = <<"Create">> =>
                /\ DataSeq(store[b].users) = Generated.users
                /\ DataSeq(store[b].orders) = Generated.orders)
        /\ (Completed(b) /\ left[b] # <<>> => store[b] = left[b][1].st)

C9_Witness ==
    /\ runs = 2 /\ pc = "done"
    /\ \A b \in Backends : Completed(b) /\ left[b] # <<>> /\ left[b][1].run = 1

\* C10 - Referential range and dense identifiers: in every dataset returned
\* by get_dataset the users are 1..UserCount and the orders 1..OrderCount,
\* ascending and without repetition, every order's user_id is in
\* 1..UserCount and every status is PENDING, PAID or CANCELLED.
C10_DenseIdentifiers ==
    \A k \in 1..Len(datasets) :
        LET d == datasets[k] IN
        /\ Len(d.users) = UserCount
        /\ Len(d.orders) = OrderCount
        /\ \A i \in 1..Len(d.users) : d.users[i].user_id = i
        /\ \A i \in 1..Len(d.orders) :
            /\ d.orders[i].order_id = i
            /\ d.orders[i].user_id >= 1
            /\ d.orders[i].user_id <= UserCount
            /\ d.orders[i].status \in {"PENDING", "PAID", "CANCELLED"}

C10_Witness ==
    /\ Len(datasets) >= 1
    /\ Len(datasets[1].orders) = OrderCount
    /\ \E i \in 1..OrderCount : datasets[1].orders[i].user_id = 1
    /\ \E i \in 1..OrderCount : datasets[1].orders[i].user_id = UserCount

====
